---- MODULE Spec2Model ----
(***************************************************************************)
(* Model of scripts/convert_to_coreml2.py: a linear script that loads a    *)
(* Real-ESRGAN checkpoint into SRVGGNetCompact, wraps it in RGBWrapper,    *)
(* traces it, converts the trace to a Core ML model and saves the package. *)
(*                                                                         *)
(* A Python name that is not bound yet is the empty sequence <<>>; a bound *)
(* name is the one-element sequence <<value>>.                             *)
(* A (possibly nested) dictionary is flattened: a function from key paths  *)
(* (sequences of strings) to parameter tensors.  The path <<>> stands for  *)
(* an object that is a tensor itself and not a dictionary.                 *)
(***************************************************************************)
EXTENDS Integers, Sequences, FiniteSets, TLC

VARIABLES
    pc,             \* the statement the script is about to execute
    fs,             \* the file system: path -> kind of file stored there
    ckpt_data,      \* the object pickled in the checkpoint file
    ckpt,           \* the script's variable ckpt
    model,          \* the script's variable model
    wrapped_model,  \* the script's variable wrapped_model
    example_input,  \* the script's variable example_input
    traced_model,   \* the script's variable traced_model
    mlmodel,        \* the script's variable mlmodel
    saved,          \* the model stored in the package, once it is written
    stdout,         \* the lines printed
    error,          \* the exception that ended the run, if any
    reads,          \* the paths opened for reading
    writes,         \* the paths written, in order
    log             \* the statements completed, in order

vars == <<pc, fs, ckpt_data, ckpt, model, wrapped_model, example_input,
          traced_model, mlmodel, saved, stdout, error, reads, writes, log>>

----------------------------------------------------------------------------
(* Bounds of the model *)

\* parameter tensors hold a value in 0..MaxWeight
MaxWeight == 1
\* pixels hold a value in 0..MaxVal
MaxVal == 1
\* the spatial positions 1..MaxPos of the example input are tracked
MaxPos == 2
\* a leading dimension a parameter tensor of the wrong shape has
OtherFeat == 32

----------------------------------------------------------------------------
(* Constants of the script *)

num_in_ch == 3
num_out_ch == 3
num_feat == 64
upscale == 4
ExampleBatch == 1
ExampleChannels == 3
ExampleSize == 64

CkptPath == "weights/realesr-general-x4v3.pth"
\* the package name of the script this one was copied from
OutPathOld == "RealESRGAN_x4v3.mlpackage"
OutPath == "RealESRGAN_x4v3_tensor.mlpackage"
\* the text printed, whose first word is Japanese for "conversion complete"
\* and is written here in ASCII
DoneMessage == "henkan kanryo: RealESRGAN_x4v3_tensor.mlpackage"
\* a file of the working directory the script does not name
OtherPath == "README.md"
Paths == {CkptPath, OutPath, OtherPath}

ParamsKey == "params"
\* x[:, [2,1,0], :, :] with channels numbered from 1
BGRPerm == <<3, 2, 1>>

ExampleShape == <<ExampleBatch, ExampleChannels, ExampleSize, ExampleSize>>

\* the parameter names of the constructed SRVGGNetCompact
ModelKeys == {"body.0.weight", "body.0.bias"}

----------------------------------------------------------------------------
(* Dictionaries and checkpoints *)

ParamTensors == [shape : {num_feat, OtherFeat}, val : 0..MaxWeight]

KeyUniverse == ModelKeys \cup {"extra.weight"}

\* a raw state dictionary: parameter name -> tensor
StateDicts ==
    UNION {[{<<k>> : k \in K} -> ParamTensors] : K \in SUBSET KeyUniverse}

\* the dictionary {key: d}
Nest(key, d) == [p \in {<<key>> \o q : q \in DOMAIN d} |-> d[Tail(p)]]

\* key in d
Contains(d, key) == \E p \in DOMAIN d : Len(p) > 0 /\ p[1] = key

\* d[key]
GetItem(d, key) ==
    [q \in {Tail(p) : p \in {r \in DOMAIN d : Len(r) > 0 /\ r[1] = key}}
        |-> d[<<key>> \o q]]

\* the top-level keys of d
Keys(d) == {p[1] : p \in {r \in DOMAIN d : Len(r) > 0}}

GoodStateDicts ==
    {d \in StateDicts : Keys(d) = ModelKeys
                        /\ \A p \in DOMAIN d : d[p].shape = num_feat}

Checkpoints ==
    StateDicts
    \cup {Nest(ParamsKey, d) : d \in StateDicts}
    \cup {Nest("params_ema", d) : d \in StateDicts}
    \cup {Nest(ParamsKey, d) @@ Nest("params_ema", d) : d \in GoodStateDicts}
    \cup {d @@ (<<ParamsKey>> :> t) : d \in GoodStateDicts, t \in ParamTensors}

----------------------------------------------------------------------------
(* Tensors: a shape and the values at the tracked indices <<b, c, h, w>> *)

Min(a, b) == IF a < b THEN a ELSE b

Idx(shape, maxpos) ==
    (1..shape[1]) \X (1..shape[2])
        \X (1..Min(shape[3], maxpos)) \X (1..Min(shape[4], maxpos))

\* the output positions tracked: the first one of each tracked input block
OutPos == (MaxPos - 1) * upscale + 1

\* torch.rand(1, 3, 64, 64): the values are arbitrary
ExampleInputs ==
    {[shape |-> ExampleShape,
      at |-> [i \in Idx(ExampleShape, MaxPos)
                |-> (seed[i[2]] + (i[3] - 1) + (i[4] - 1)) % (MaxVal + 1)]]
        : seed \in [1..ExampleChannels -> 0..MaxVal]}

\* x[:, perm, :, :]
IndexChannels(x, perm) ==
    [shape |-> <<x.shape[1], Len(perm), x.shape[3], x.shape[4]>>,
     at |-> [i \in {j \in DOMAIN x.at : j[2] \in 1..Len(perm)}
                |-> x.at[<<i[1], perm[i[2]], i[3], i[4]>>]]]

\* .contiguous() changes the memory layout only, never a value
Contiguous(x) == x

\* SRVGGNetCompact(...)(x): the network is a library's; what the script
\* fixes is the channel counts and the upscale factor.  Here the weight
\* says whether output channel c is computed from input channel c (0) or
\* from the next channel (otherwise), and the bias is added to every pixel.
SRVGGNetCompact(m, x) ==
    LET w == m.params[<<"body.0.weight">>].val
        b == m.params[<<"body.0.bias">>].val
        src(c) == IF w = 0 THEN c ELSE (c % num_in_ch) + 1
        oshape == <<x.shape[1], num_out_ch,
                    x.shape[3] * upscale, x.shape[4] * upscale>>
    IN  [shape |-> oshape,
         at |-> [i \in Idx(oshape, OutPos)
                   |-> (x.at[<<i[1], src(i[2]),
                              ((i[3] - 1) \div upscale) + 1,
                              ((i[4] - 1) \div upscale) + 1>>] + b)
                       % (MaxVal + 1)]]

\* forward without the reordering of the output channels
forwardNoOutputSwap(m, x) ==
    SRVGGNetCompact(m, Contiguous(IndexChannels(x, BGRPerm)))

\* RGBWrapper.forward(x) with self.model = m
forward(m, x) ==
    LET x1 == Contiguous(IndexChannels(x, BGRPerm))
        out == SRVGGNetCompact(m, x1)
    IN  Contiguous(IndexChannels(out, BGRPerm))

----------------------------------------------------------------------------
(* The script, statement by statement *)

\* the statements in the order the file lists them
Statements ==
    <<"construct", "torch.load", "select", "load_state_dict", "eval", "wrap",
      "example_input", "trace", "convert", "save", "print">>

StmtIndex(p) == CHOOSE i \in 1..Len(Statements) : Statements[i] = p

\* the order without the print that ends the script
NextPcSkipPrint(p) ==
    IF p = "save" \/ p = "print" THEN "done"
    ELSE Statements[StmtIndex(p) + 1]

\* the order with model.eval() ahead of load_state_dict
NextPcEvalFirst(p) ==
    CASE p = "select" -> "eval"
      [] p = "eval" -> "load_state_dict"
      [] p = "load_state_dict" -> "wrap"
      [] p = "print" -> "done"
      [] OTHER -> Statements[StmtIndex(p) + 1]

\* the statement that follows p when p returns
NextPc(p) ==
    IF StmtIndex(p) = Len(Statements) THEN "done"
    ELSE Statements[StmtIndex(p) + 1]

\* statement pc returned
Return == /\ pc' = NextPc(pc)
          /\ log' = Append(log, pc)
          /\ error' = error

\* an exception that is caught and dropped: the script goes on
RaiseSwallowed(exc) == /\ pc' = NextPc(pc)
                       /\ error' = <<[at |-> pc, exc |-> exc]>>
                       /\ log' = log

\* statement pc raised exc: nothing handles it, the interpreter exits
Raise(exc) == /\ pc' = "failed"
              /\ error' = <<[at |-> pc, exc |-> exc]>>
              /\ log' = log

\* load_state_dict(ckpt, strict=False)
strictOff == FALSE

\* the argument strict of load_state_dict
strict == TRUE

\* the selection with the key 'params_ema' in place of 'params'
SelectStateDictEma(c) ==
    IF Contains(c, "params_ema") THEN GetItem(c, "params_ema") ELSE c

\* the value ckpt has after lines 15-16
SelectStateDict(c) ==
    IF Contains(c, ParamsKey) THEN GetItem(c, ParamsKey) ELSE c

\* the names both the model and the dictionary sd have
Matched(params, sd) == {p \in DOMAIN params : p[1] \in Keys(sd)}

\* the matched names load_state_dict reports an error for: the value is no
\* tensor, or its shape differs from the parameter's
CopyErrors(params, sd) ==
    {p \in Matched(params, sd) :
        p \notin DOMAIN sd \/ sd[p].shape # params[p].shape}

\* the missing and the unexpected keys
KeyErrors(params, sd) ==
    ({p[1] : p \in DOMAIN params} \ Keys(sd))
        \cup (Keys(sd) \ {p[1] : p \in DOMAIN params})

\* an image input declared with the size of the output
ImageTypeOutputSize(x) ==
    [type |-> "ImageType", name |-> "input_image",
     shape |-> <<x.shape[1], x.shape[2],
                 x.shape[3] * upscale, x.shape[4] * upscale>>,
     scale |-> <<1, 255>>, bias |-> <<0, 0, 0>>, color_layout |-> "RGB"]

\* ct.ImageType(name=..., shape=example_input.shape, ...)
ImageType(x) ==
    [type |-> "ImageType", name |-> "input_image", shape |-> x.shape,
     scale |-> <<1, 255>>, bias |-> <<0, 0, 0>>, color_layout |-> "RGB"]

\* ct.TensorType(name=..., dtype=np.float32)
TensorType ==
    [type |-> "TensorType", name |-> "output_image", dtype |-> "float32"]

Init ==
    /\ pc = "construct"
    /\ fs \in [Paths -> {"absent", "corrupt", "checkpoint", "stale", "other"}]
    /\ fs[CkptPath] \in {"absent", "corrupt", "checkpoint"}
    /\ fs[OutPath] \in {"absent", "stale"}
    /\ fs[OtherPath] = "other"
    /\ ckpt_data \in Checkpoints
    /\ fs[CkptPath] # "checkpoint" => DOMAIN ckpt_data = {}
    /\ ckpt = <<>>
    /\ model = <<>>
    /\ wrapped_model = <<>>
    /\ example_input = <<>>
    /\ traced_model = <<>>
    /\ mlmodel = <<>>
    /\ saved = <<>>
    /\ stdout = <<>>
    /\ error = <<>>
    /\ reads = {}
    /\ writes = <<>>
    /\ log = <<>>

\* lines 7-11: the parameters start at arbitrary initial values
Construct ==
    /\ pc = "construct"
    /\ \E d \in GoodStateDicts :
          model' = <<[params |-> d, training |-> TRUE]>>
    /\ Return
    /\ UNCHANGED <<fs, ckpt_data, ckpt, wrapped_model, example_input,
                   traced_model, mlmodel, saved, stdout, reads, writes>>

\* line 14
TorchLoad ==
    /\ pc = "torch.load"
    /\ reads' = reads \cup {CkptPath}
    /\ \/ /\ fs[CkptPath] = "absent"
          /\ Raise("FileNotFoundError")
          /\ ckpt' = ckpt
       \/ /\ fs[CkptPath] = "corrupt"
          /\ Raise("UnpicklingError")
          /\ ckpt' = ckpt
       \/ /\ fs[CkptPath] = "checkpoint"
          /\ ckpt' = <<ckpt_data>>
          /\ Return
    /\ UNCHANGED <<fs, ckpt_data, model, wrapped_model, example_input,
                   traced_model, mlmodel, saved, stdout, writes>>

\* lines 15-16
Select ==
    /\ pc = "select"
    /\ ckpt' = <<SelectStateDict(ckpt[1])>>
    /\ Return
    /\ UNCHANGED <<fs, ckpt_data, model, wrapped_model, example_input,
                   traced_model, mlmodel, saved, stdout, reads, writes>>

\* line 17
LoadStateDict ==
    /\ pc = "load_state_dict"
    /\ LET sd == ckpt[1]
           params == model[1].params
       IN  \/ /\ <<>> \in DOMAIN sd
              /\ Raise("TypeError")
              /\ model' = model
           \/ /\ <<>> \notin DOMAIN sd
              /\ \/ CopyErrors(params, sd) # {}
                 \/ strict /\ KeyErrors(params, sd) # {}
              /\ Raise("RuntimeError")
              /\ model' = model
           \/ /\ <<>> \notin DOMAIN sd
              /\ CopyErrors(params, sd) = {}
              /\ strict => KeyErrors(params, sd) = {}
              /\ model' = <<[model[1] EXCEPT !.params =
                    [p \in DOMAIN params |->
                        IF p \in DOMAIN sd THEN sd[p] ELSE params[p]]]>>
              /\ Return
    /\ UNCHANGED <<fs, ckpt_data, ckpt, wrapped_model, example_input,
                   traced_model, mlmodel, saved, stdout, reads, writes>>

\* the script without model.eval()
EvalSkipped ==
    /\ pc = "eval"
    /\ Return
    /\ UNCHANGED <<fs, ckpt_data, ckpt, model, wrapped_model, example_input,
                   traced_model, mlmodel, saved, stdout, reads, writes>>

\* line 18
Eval ==
    /\ pc = "eval"
    /\ model' = <<[model[1] EXCEPT !.training = FALSE]>>
    /\ Return
    /\ UNCHANGED <<fs, ckpt_data, ckpt, wrapped_model, example_input,
                   traced_model, mlmodel, saved, stdout, reads, writes>>

\* line 31: the wrapper holds a reference to the object model names
Wrap ==
    /\ pc = "wrap"
    /\ wrapped_model' = <<[module |-> "RGBWrapper", inner |-> "model"]>>
    /\ Return
    /\ UNCHANGED <<fs, ckpt_data, ckpt, model, example_input,
                   traced_model, mlmodel, saved, stdout, reads, writes>>

\* line 34
ExampleInput ==
    /\ pc = "example_input"
    /\ \E x \in ExampleInputs : example_input' = <<x>>
    /\ Return
    /\ UNCHANGED <<fs, ckpt_data, ckpt, model, wrapped_model,
                   traced_model, mlmodel, saved, stdout, reads, writes>>

\* line 37: the tracer runs wrapped_model.forward on the example input and
\* records the graph of that run
Trace ==
    /\ pc = "trace"
    /\ \/ /\ Raise("TracingError")
          /\ traced_model' = traced_model
       \/ /\ traced_model' =
                <<[module |-> wrapped_model[1].module,
                   params |-> model[1].params,
                   training |-> model[1].training,
                   input_shape |-> example_input[1].shape,
                   example_out |-> forward(model[1], example_input[1])]>>
          /\ Return
    /\ UNCHANGED <<fs, ckpt_data, ckpt, model, wrapped_model, example_input,
                   mlmodel, saved, stdout, reads, writes>>

\* lines 40-54
Convert ==
    /\ pc = "convert"
    /\ \/ /\ Raise("ConversionError")
          /\ mlmodel' = mlmodel
       \/ /\ mlmodel' =
                <<[source |-> traced_model[1],
                   inputs |-> <<ImageType(example_input[1])>>,
                   outputs |-> <<TensorType>>,
                   compute_units |-> "ALL"]>>
          /\ Return
    /\ UNCHANGED <<fs, ckpt_data, ckpt, model, wrapped_model, example_input,
                   traced_model, saved, stdout, reads, writes>>

\* a save that goes through a scratch file next to the package
SaveWithScratchFile ==
    /\ pc = "save"
    /\ fs' = [fs EXCEPT ![OutPath] = "package", ![OtherPath] = "partial"]
    /\ writes' = writes \o <<OtherPath, OutPath>>
    /\ saved' = mlmodel
    /\ Return
    /\ UNCHANGED <<ckpt_data, ckpt, model, wrapped_model, example_input,
                   traced_model, mlmodel, stdout, reads>>

\* line 56: a save that fails may leave nothing or a partial package
Save ==
    /\ pc = "save"
    /\ \/ /\ Raise("OSError")
          /\ UNCHANGED <<fs, saved, writes>>
       \/ /\ Raise("OSError")
          /\ fs' = [fs EXCEPT ![OutPath] = "partial"]
          /\ writes' = Append(writes, OutPath)
          /\ saved' = saved
       \/ /\ fs' = [fs EXCEPT ![OutPath] = "package"]
          /\ writes' = Append(writes, OutPath)
          /\ saved' = mlmodel
          /\ Return
    /\ UNCHANGED <<ckpt_data, ckpt, model, wrapped_model, example_input,
                   traced_model, mlmodel, stdout, reads>>

\* line 57: the message is not ASCII, and a stdout that cannot encode it
\* raises
PrintMessage ==
    /\ pc = "print"
    /\ \/ /\ Raise("UnicodeEncodeError")
          /\ stdout' = stdout
       \/ /\ stdout' = Append(stdout, DoneMessage)
          /\ Return
    /\ UNCHANGED <<fs, ckpt_data, ckpt, model, wrapped_model, example_input,
                   traced_model, mlmodel, saved, reads, writes>>

Next ==
    \/ Construct
    \/ TorchLoad
    \/ Select
    \/ LoadStateDict
    \/ Eval
    \/ Wrap
    \/ ExampleInput
    \/ Trace
    \/ Convert
    \/ Save
    \/ PrintMessage

Spec == Init /\ [][Next]_vars

\* the interpreter runs the next statement as long as there is one
FairSpec == Spec /\ WF_vars(Next)

----------------------------------------------------------------------------
(* Properties *)

Range(q) == {q[i] : i \in DOMAIN q}

IsPrefix(q, r) == Len(q) <= Len(r) /\ q = SubSeq(r, 1, Len(q))

Count(q, e) == Cardinality({i \in DOMAIN q : q[i] = e})

\* the pipeline of the specification: the four statements of the stage
\* "load weights", then wrap, trace (with its example input), convert, save
Pipeline ==
    <<"construct", "torch.load", "select", "load_state_dict", "eval", "wrap",
      "example_input", "trace", "convert", "save", "print">>

\* the state dictionary the checkpoint in the file holds: the value under
\* 'params' when there is one, the checkpoint itself otherwise
Expected ==
    IF \E p \in DOMAIN ckpt_data : Len(p) > 0 /\ p[1] = "params"
    THEN [q \in {Tail(p) : p \in {r \in DOMAIN ckpt_data :
                                    Len(r) > 0 /\ r[1] = "params"}}
            |-> ckpt_data[<<"params">> \o q]]
    ELSE ckpt_data

NoPackage ==
    /\ writes = <<>>
    /\ saved = <<>>
    /\ fs["RealESRGAN_x4v3_tensor.mlpackage"] \in {"absent", "stale"}

\* C1: the statements complete in the fixed order load weights, wrap,
\* trace, convert, save, each at most once and each only after all the
\* earlier ones; nothing is saved before convert returned a model and
\* nothing is traced before the weights are in the model.
C1_StageOrder ==
    /\ IsPrefix(log, Pipeline)
    /\ \A e \in Range(log) : Count(log, e) = 1
    /\ saved # <<>> => mlmodel # <<>> /\ "convert" \in Range(log)
    /\ mlmodel # <<>> => traced_model # <<>> /\ "trace" \in Range(log)
    /\ traced_model # <<>> =>
          /\ wrapped_model # <<>>
          /\ "load_state_dict" \in Range(log)
          /\ traced_model[1].params = Expected
    /\ wrapped_model # <<>> => "load_state_dict" \in Range(log)

C1_Witness ==
    /\ pc = "done"
    /\ log = Pipeline
    /\ saved # <<>>

\* C2: the dictionary passed to load_state_dict is the value under 'params'
\* when the checkpoint has that key and the checkpoint itself otherwise, so
\* a raw state dictionary d and {'params': d} load the same parameters d.
C2_SelectedStateDict ==
    /\ "select" \in Range(log) => ckpt[1] = Expected
    /\ "load_state_dict" \in Range(log) =>
          /\ model[1].params = Expected
          /\ \A d \in GoodStateDicts :
                (ckpt_data = d \/ ckpt_data = Nest("params", d))
                    => model[1].params = d

C2_Witness ==
    /\ "load_state_dict" \in Range(log)
    /\ \E d \in GoodStateDicts : ckpt_data = Nest("params", d)
    /\ model[1].params # ckpt_data

\* C3: an error raised by a statement ends the run there: the statements
\* completed are exactly those before the failing one, the completion
\* message is not printed, and unless the failure is in save (or after it)
\* no package is written.
C3_ErrorEndsRun ==
    error # <<>> =>
        /\ pc = "failed"
        /\ log = SubSeq(Pipeline, 1, Len(log))
        /\ Len(log) < Len(Pipeline)
        /\ Pipeline[Len(log) + 1] = error[1].at
        /\ stdout = <<>>
        /\ error[1].at \notin {"save", "print"} => NoPackage

C3_Witness ==
    /\ error # <<>>
    /\ error[1].at = "convert"
    /\ traced_model # <<>>
    /\ NoPackage

\* C4: a run that ends without an error has written one package, at
\* 'RealESRGAN_x4v3_tensor.mlpackage', whatever the checkpoint was; the
\* completion message is printed only once that save is complete.
C4_OnePackage ==
    /\ pc = "done" =>
          /\ error = <<>>
          /\ writes = <<"RealESRGAN_x4v3_tensor.mlpackage">>
          /\ fs["RealESRGAN_x4v3_tensor.mlpackage"] = "package"
          /\ saved = mlmodel
          /\ saved # <<>>
          /\ Len(stdout) = 1
    /\ stdout # <<>> => "save" \in Range(log)
    /\ "save" \in Range(log) =>
          /\ writes = <<"RealESRGAN_x4v3_tensor.mlpackage">>
          /\ fs["RealESRGAN_x4v3_tensor.mlpackage"] = "package"
          /\ saved = mlmodel
    /\ \A i \in DOMAIN writes : writes[i] = "RealESRGAN_x4v3_tensor.mlpackage"

C4_Witness ==
    /\ pc = "done"
    /\ stdout # <<>>
    /\ \E d \in GoodStateDicts : ckpt_data = d

\* C5: in every run the only path read is the checkpoint's and the only
\* path written is the package's; no step changes the checkpoint file or
\* any other file.
C5_Frame ==
    /\ [](/\ reads \subseteq {"weights/realesr-general-x4v3.pth"}
          /\ Range(writes) \subseteq {"RealESRGAN_x4v3_tensor.mlpackage"})
    /\ [][/\ ckpt_data' = ckpt_data
          /\ \A p \in Paths \ {"RealESRGAN_x4v3_tensor.mlpackage"} :
                fs'[p] = fs[p]]_vars

C5_Witness ==
    /\ pc = "done"
    /\ reads = {"weights/realesr-general-x4v3.pth"}
    /\ fs["weights/realesr-general-x4v3.pth"] = "checkpoint"
    /\ fs["README.md"] = "other"
    /\ fs["RealESRGAN_x4v3_tensor.mlpackage"] = "package"

\* the tensor x with its channels in the order [2, 1, 0]
Swapped(x) ==
    [x EXCEPT !.at = [i \in DOMAIN x.at |->
                        x.at[<<i[1], Len(BGRPerm) + 1 - i[2], i[3], i[4]>>]]]

\* C6: the output of the wrapper at batch b, channel c, row h, column w is
\* the inner model's output for the channel-reversed input at b, the
\* reversed channel, h, w; and when the inner model treats every channel
\* alike, the wrapper's output is the inner model's output on the input
\* as given.
C6_WrapperForward ==
    traced_model # <<>> =>
        LET m == model[1]
            x == example_input[1]
            y == traced_model[1].example_out
            inner == SRVGGNetCompact(m, Swapped(x))
        IN  /\ y.shape = inner.shape
            /\ DOMAIN y.at = DOMAIN inner.at
            /\ \A i \in DOMAIN y.at :
                  y.at[i] = inner.at[<<i[1], Len(BGRPerm) + 1 - i[2],
                                       i[3], i[4]>>]
            /\ m.params[<<"body.0.weight">>].val = 0
                  => y = SRVGGNetCompact(m, x)

C6_Witness ==
    /\ traced_model # <<>>
    /\ model[1].params[<<"body.0.weight">>].val = 0
    /\ example_input[1].at[<<1, 1, 1, 1>>] # example_input[1].at[<<1, 3, 1, 1>>]
    /\ traced_model[1].example_out = SRVGGNetCompact(model[1], example_input[1])
    /\ traced_model[1].example_out # SRVGGNetCompact(model[1], Swapped(example_input[1]))

\* C7: when the keys of the selected state dictionary differ from the
\* model's parameter names, load_state_dict does not return: the run fails
\* there, before wrap, trace, convert and save, and no package is written.
C7_StrictLoad ==
    (ckpt # <<>> /\ Keys(Expected) # ModelKeys) =>
        /\ Range(log) \subseteq {"construct", "torch.load", "select"}
        /\ wrapped_model = <<>>
        /\ traced_model = <<>>
        /\ mlmodel = <<>>
        /\ NoPackage
        /\ pc \in {"select", "load_state_dict", "failed"}
        /\ pc = "failed" => error[1].at = "load_state_dict"

C7_Witness ==
    /\ pc = "failed"
    /\ error[1].at = "load_state_dict"
    /\ Keys(ckpt_data) = {"params_ema"}
    /\ ModelKeys \subseteq Keys(GetItem(ckpt_data, "params_ema"))

\* C8: when torch.jit.trace is called the weights of the checkpoint are in
\* the model and the model is in eval mode; the trace is made once, of the
\* wrapped model, on one example input of shape (1, 3, 64, 64).
C8_TraceReady ==
    /\ pc = "trace" =>
          /\ model[1].training = FALSE
          /\ model[1].params = Expected
          /\ example_input[1].shape = <<1, 3, 64, 64>>
          /\ Count(log, "trace") = 0
    /\ traced_model # <<>> =>
          /\ traced_model[1].training = FALSE
          /\ traced_model[1].params = Expected
          /\ traced_model[1].module = "RGBWrapper"
          /\ traced_model[1].input_shape = <<1, 3, 64, 64>>
          /\ Count(log, "trace") = 1

C8_Witness ==
    /\ traced_model # <<>>
    /\ pc = "convert"
    /\ Count(log, "trace") = 1

\* C9: the converter is given one input, the RGB image 'input_image' whose
\* shape is the shape of the example input of the trace, (1, 3, 64, 64),
\* and one output, the float32 tensor 'output_image'.
C9_DeclaredInterface ==
    mlmodel # <<>> =>
        LET ml == mlmodel[1]
        IN  /\ Len(ml.inputs) = 1
            /\ ml.inputs[1].type = "ImageType"
            /\ ml.inputs[1].name = "input_image"
            /\ ml.inputs[1].color_layout = "RGB"
            /\ ml.inputs[1].shape = ml.source.input_shape
            /\ ml.inputs[1].shape = example_input[1].shape
            /\ ml.inputs[1].shape = <<1, 3, 64, 64>>
            /\ Len(ml.outputs) = 1
            /\ ml.outputs[1].type = "TensorType"
            /\ ml.outputs[1].name = "output_image"
            /\ ml.outputs[1].dtype = "float32"

C9_Witness ==
    /\ mlmodel # <<>>
    /\ pc = "save"
    /\ mlmodel[1].inputs[1].shape = traced_model[1].input_shape

Success ==
    /\ stdout = <<DoneMessage>>
    /\ fs["RealESRGAN_x4v3_tensor.mlpackage"] = "package"
    /\ saved # <<>>

Failure == error # <<>>

Terminal == pc \in {"done", "failed"}

Position(p) ==
    CASE p = "done" -> Len(Pipeline) + 1
      [] p = "failed" -> Len(Pipeline) + 2
      [] OTHER -> CHOOSE i \in DOMAIN Pipeline : Pipeline[i] = p

\* C10: every run ends, in exactly one of success (package saved and
\* message printed) and failure (an error propagated); the script only
\* moves forward and stays where it ended.
C10_OneShot ==
    /\ <>Terminal
    /\ [](Terminal => (Success /\ ~Failure /\ pc = "done")
                      \/ (Failure /\ ~Success /\ pc = "failed"))
    /\ [](~Terminal => ~Success /\ ~Failure)
    /\ [][Position(pc') > Position(pc)]_vars
    /\ [][~Terminal]_vars

C10_Witness ==
    /\ pc = "failed"
    /\ error[1].at = "print"
    /\ fs["RealESRGAN_x4v3_tensor.mlpackage"] = "package"

====
